---------------------------- MODULE Spec2Model ----------------------------
(***************************************************************************)
(* Asynchronous name-resolve coordination of lib/hostasyn.c:               *)
(*   Curl_addrinfo_callback  - the completion callback a resolver backend  *)
(*                             calls when a lookup has finished            *)
(*   Curl_async_resolved     - the consumer run by the connection layer    *)
(*                             once it has seen the lookup complete        *)
(* Each connection owns one struct Curl_async (async.status, async.dns,    *)
(* async.done).  The callback may run on another thread than the owner of  *)
(* the connection; the fields are plain (non-atomic) struct members, so    *)
(* the order in which another thread gets to see the callback's stores is  *)
(* not fixed by the program: `async` is the struct in program order, `obs` *)
(* is what a thread other than the writer currently observes of it.        *)
(***************************************************************************)
EXTENDS Naturals, FiniteSets, Sequences

(* ------------------------------- bounds -------------------------------- *)
\* callback invocations in one behaviour (over all connections)
MaxCalls == 2
\* Curl_async_resolved invocations in one behaviour (over all connections)
MaxClaims == 2
\* resolver handles created in one behaviour
MaxHandles == 3

\* two connections, each with its own easy handle (data->easy_conn)
Conns == {1, 2}
\* (hostname, port) pairs being resolved: at most one per connection
Keys == Conns
\* the memory calloc hands out for struct Curl_resolver, one block per create
Handles == 1..MaxHandles

(* ------------------------------ constants ------------------------------ *)
NULL == 0
CURL_ASYNC_SUCCESS == "CURL_ASYNC_SUCCESS"
\* any status of the backend other than CURL_ASYNC_SUCCESS
ASYNC_FAILURE == "ASYNC_FAILURE"
CURLE_OK == "CURLE_OK"
CURLE_OUT_OF_MEMORY == "CURLE_OUT_OF_MEMORY"
\* any failure of Curl_setup_conn
CURLE_SETUP_FAILED == "CURLE_SETUP_FAILED"

Statuses == {CURL_ASYNC_SUCCESS, ASYNC_FAILURE}
Fields == {"status", "dns", "done"}

VARIABLES
  share,      \* share[c]: data->share is set (the handle uses a shared cache)
  key,        \* key[c]: conn->async.hostname / conn->async.port
  async,      \* async[c]: conn->async as written in program order
  obs,        \* obs[c]: conn->async as another thread observes it
  dns_entry,  \* dns_entry[c]: conn->dns_entry
  alive,      \* alive[c]: the connectdata has not been freed by Curl_disconnect
  cb,         \* cb[c]: position and locals of Curl_addrinfo_callback
  co,         \* co[c]: what the last Curl_async_resolved on c did
  held,       \* owner of the share's DNS lock, NULL when free
  cache,      \* cache[id][k]: the entry stored for key k, NULL when none
  cached,     \* address lists whose ownership the cache has taken
  freed,      \* address lists released with Curl_freeaddrinfo
  ncalls,     \* ncalls[c]: callback invocations so far
  nclaims,    \* nclaims[c]: consumer invocations so far
  nmut,       \* nmut[id][k]: store calls that changed cache[id][k]
  claimed,    \* claimed[c]: what each claim since the last completion of c
              \* found in async.dns
  resolver,   \* resolver[h]: struct Curl_resolver in block h, and what was
              \* done with it
  oom         \* how a create whose calloc returned NULL ended

\* the state of the name-resolve coordination, and of the resolver handles
cvars == <<share, key, async, obs, dns_entry, alive, cb, co, held, cache,
           cached, freed, ncalls, nclaims, nmut, claimed>>
rvars == <<resolver, oom>>
vars == <<share, key, async, obs, dns_entry, alive, cb, co, held, cache,
          cached, freed, ncalls, nclaims, nmut, claimed, resolver, oom>>

\* the cache a handle uses: the shared one (NULL) or its own
CacheIds == {NULL} \cup Conns
CacheOf(c) == IF share[c] THEN NULL ELSE c

RECURSIVE SumOver(_, _)
SumOver(f, S) == IF S = {} THEN 0
                 ELSE LET x == CHOOSE y \in S : TRUE
                      IN f[x] + SumOver(f, S \ {x})

(* ------------------------- Pending Resolution -------------------------- *)
AsyncInit == [status |-> CURL_ASYNC_SUCCESS, dns |-> NULL, done |-> FALSE]
\* locks, unlocks, stores: calls of Curl_share_lock, Curl_share_unlock and
\* Curl_cache_addr the latest invocation has made
CbIdle == [pc |-> "idle", status |-> CURL_ASYNC_SUCCESS, ai |-> NULL,
           dns |-> NULL, result |-> CURLE_OK,
           locks |-> 0, unlocks |-> 0, stores |-> 0]
\* status, cbres: async.status and the callback's result when the consumer ran;
\* calls: the calls it made, in order; result: what Curl_setup_conn returned
\* mem: the block is unused, live or freed; userdata: resolver->userdata;
\* priv: the private state of the backend behind userdata; calls: the calls
\* made on the handle, in order; ret: what create returned for it
NoResolver == [mem |-> "unused", userdata |-> "null", priv |-> "none",
               calls |-> <<>>, ret |-> "none", init |-> "none"]
CoIdle == [status |-> CURL_ASYNC_SUCCESS, cbres |-> CURLE_OK, calls |-> <<>>,
           result |-> CURLE_OK, ret |-> "none"]

Init ==
  /\ share \in [Conns -> BOOLEAN]
  /\ key \in [Conns -> Keys]
  \* connections and names are interchangeable: the handles with a share come
  \* first, and names are numbered in the order the connections use them
  /\ \A c \in Conns : c > 1 /\ share[c] => share[c - 1]
  /\ \A c \in Conns : \A k \in Keys :
        k < key[c] => \E d \in Conns : d < c /\ key[d] = k
  /\ async = [c \in Conns |-> AsyncInit]
  /\ obs = [c \in Conns |-> AsyncInit]
  /\ dns_entry = [c \in Conns |-> NULL]
  /\ alive = [c \in Conns |-> TRUE]
  /\ cb = [c \in Conns |-> CbIdle]
  /\ co = [c \in Conns |-> CoIdle]
  /\ held = NULL
  /\ cache = [i \in CacheIds |-> [k \in Keys |-> NULL]]
  /\ cached = {}
  /\ freed = {}
  /\ ncalls = [c \in Conns |-> 0]
  /\ nclaims = [c \in Conns |-> 0]
  /\ nmut = [i \in CacheIds |-> [k \in Keys |-> 0]]
  /\ claimed = [c \in Conns |-> <<>>]
  /\ resolver = [h \in Handles |-> NoResolver]
  /\ oom = "none"


(* --------------------- external collaborators -------------------------- *)
\* Curl_share_lock(data, CURL_LOCK_DATA_DNS, ...): blocks until the lock is free
Curl_share_lock(c) == held = NULL /\ held' = c
\* Curl_share_unlock(data, CURL_LOCK_DATA_DNS)
Curl_share_unlock(c) == held' = NULL
\* Curl_freeaddrinfo(ai)
Curl_freeaddrinfo(ai) == freed' = freed \cup {ai}
\* the entry Curl_cache_addr finds already stored for the key of c
CacheLookup(c) == cache[CacheOf(c)][key[c]]
\* Curl_setup_conn(conn, protocol_done) may fail
SetupResults == {CURLE_OK, CURLE_SETUP_FAILED}

(* ---------------------- Curl_addrinfo_callback ------------------------- *)
\* a callback that turns away a completion arriving after async.done is set
StatusStoredOnce(c, status) == IF async[c].done THEN async[c].status ELSE status
\* line 78: conn->async.status = status
StatusStored(c, status) == status
\* a callback that hands any list to the cache, whatever the status
TakesListAnyStatus(status, ai) == ai # NULL
\* lines 80-81: the list is handed to the cache
TakesList(status, ai) == status = CURL_ASYNC_SUCCESS /\ ai # NULL
\* a callback that takes the lock whether or not the handle has a share
LockNeededAlways(c) == TRUE
\* a callback that never takes the share's lock
LockNeededNever(c) == FALSE
\* line 82: if(data->share)
LockNeeded(c) == share[c]
\* a callback that forgets the cleanup of a failed store
StoreFailedIgnored(dns) == FALSE
\* line 88: if(!dns)
StoreFailed(dns) == dns = NULL
\* a callback that frees the list of a failed store but reports success
StoreFailedResultOk == CURLE_OK
\* line 91: result = CURLE_OUT_OF_MEMORY
StoreFailedResult == CURLE_OUT_OF_MEMORY
\* a callback that never releases the share's lock
UnlockNeededNever(c) == FALSE
\* line 94: if(data->share)
UnlockNeeded(c) == share[c]
\* a callback that publishes the backend's list instead of the cache entry
DnsStoredList(c) == cb[c].ai
\* line 102: conn->async.dns = dns
DnsStored(c) == cb[c].dns
\* line 107: conn->async.done = TRUE
DoneStored == TRUE

\* lines 80-81, 97: where the callback goes after storing the status
BranchTaken(status, ai) == IF TakesList(status, ai) THEN "l82" ELSE "l102"
\* a callback that reports success when it was given no list
ResultOfBranchOk(status, ai) == CURLE_OK
\* lines 75, 98: result when no store is attempted
ResultOfBranch(status, ai) ==
  IF status = CURL_ASYNC_SUCCESS /\ ai = NULL THEN CURLE_OUT_OF_MEMORY
  ELSE CURLE_OK

\* the list a backend allocates for the next lookup of c: a fresh one
NewList(c) == c + Cardinality(Conns) * ncalls[c]

TotalCalls == SumOver(ncalls, Conns)
TotalClaims == SumOver(nclaims, Conns)

\* lines 70-81, 97-99: entry; the backend hands over status and (maybe) a list
CB_Invoke(c, status, hasAi) ==
  /\ cb[c].pc = "idle" /\ alive[c]
  /\ TotalCalls < MaxCalls
  /\ LET ai == IF hasAi THEN NewList(c) ELSE NULL IN
       /\ cb' = [cb EXCEPT ![c] = [pc |-> BranchTaken(status, ai),
                                   status |-> status, ai |-> ai, dns |-> NULL,
                                   result |-> ResultOfBranch(status, ai),
                                   locks |-> 0, unlocks |-> 0, stores |-> 0]]
  /\ async' = [async EXCEPT ![c].status = StatusStored(c, status)]
  /\ ncalls' = [ncalls EXCEPT ![c] = @ + 1]
  /\ claimed' = [claimed EXCEPT ![c] = <<>>]
  /\ UNCHANGED <<rvars, share, key, obs, dns_entry, alive, co, held, cache, cached,
                 freed, nclaims, nmut>>

\* lines 82-83: if(data->share) Curl_share_lock(...)
CB_Lock(c) ==
  /\ cb[c].pc = "l82"
  /\ IF LockNeeded(c)
     THEN /\ Curl_share_lock(c)
          /\ cb' = [cb EXCEPT ![c].pc = "l85", ![c].locks = @ + 1]
     ELSE /\ UNCHANGED held
          /\ cb' = [cb EXCEPT ![c].pc = "l85"]
  /\ UNCHANGED <<rvars, share, key, async, obs, dns_entry, alive, co, cache, cached,
                 freed, ncalls, nclaims, nmut, claimed>>

\* line 85, Curl_cache_addr: the store fails (nothing is left in the cache),
\* or finds the key stored and hands back that entry, or goes on to insert
CB_CacheAddr(c, ok) ==
  /\ cb[c].pc = "l85"
  /\ IF ~ok
     THEN /\ cb' = [cb EXCEPT ![c].pc = "l88", ![c].dns = NULL,
                                ![c].stores = @ + 1]
          /\ UNCHANGED cached
     ELSE IF CacheLookup(c) # NULL
          THEN /\ cb' = [cb EXCEPT ![c].pc = "l88", ![c].dns = CacheLookup(c),
                                     ![c].stores = @ + 1]
               /\ cached' = cached \cup {cb[c].ai}
          ELSE /\ cb' = [cb EXCEPT ![c].pc = "l85i", ![c].stores = @ + 1]
               /\ UNCHANGED cached
  /\ UNCHANGED <<rvars, share, key, async, obs, dns_entry, alive, co, held, cache,
                 freed, ncalls, nclaims, nmut, claimed>>

\* line 85, Curl_cache_addr: the new entry goes into the cache
CB_CacheInsert(c) ==
  /\ cb[c].pc = "l85i"
  /\ cache' = [cache EXCEPT ![CacheOf(c)][key[c]] = cb[c].ai]
  /\ nmut' = [nmut EXCEPT ![CacheOf(c)][key[c]] = @ + 1]
  /\ cached' = cached \cup {cb[c].ai}
  /\ cb' = [cb EXCEPT ![c].pc = "l88", ![c].dns = cb[c].ai]
  /\ UNCHANGED <<rvars, share, key, async, obs, dns_entry, alive, co, held, freed,
                 ncalls, nclaims, claimed>>

\* lines 88-92: if(!dns) { Curl_freeaddrinfo(ai); result = OUT_OF_MEMORY; }
CB_StoreCheck(c) ==
  /\ cb[c].pc = "l88"
  /\ IF StoreFailed(cb[c].dns)
     THEN /\ Curl_freeaddrinfo(cb[c].ai)
          /\ cb' = [cb EXCEPT ![c].pc = "l94", ![c].result = StoreFailedResult]
     ELSE /\ UNCHANGED freed
          /\ cb' = [cb EXCEPT ![c].pc = "l94"]
  /\ UNCHANGED <<rvars, share, key, async, obs, dns_entry, alive, co, held, cache,
                 cached, ncalls, nclaims, nmut, claimed>>

\* lines 94-95: if(data->share) Curl_share_unlock(...)
CB_Unlock(c) ==
  /\ cb[c].pc = "l94"
  /\ IF UnlockNeeded(c)
     THEN /\ Curl_share_unlock(c)
          /\ cb' = [cb EXCEPT ![c].pc = "l102", ![c].unlocks = @ + 1]
     ELSE /\ UNCHANGED held
          /\ cb' = [cb EXCEPT ![c].pc = "l102"]
  /\ UNCHANGED <<rvars, share, key, async, obs, dns_entry, alive, co, cache, cached,
                 freed, ncalls, nclaims, nmut, claimed>>

\* line 102: conn->async.dns = dns
CB_SetDns(c) ==
  /\ cb[c].pc = "l102"
  /\ async' = [async EXCEPT ![c].dns = DnsStored(c)]
  /\ cb' = [cb EXCEPT ![c].pc = "l107"]
  /\ UNCHANGED <<rvars, share, key, obs, dns_entry, alive, co, held, cache, cached,
                 freed, ncalls, nclaims, nmut, claimed>>

\* lines 107-111: conn->async.done = TRUE; return result
CB_SetDone(c) ==
  /\ cb[c].pc = "l107"
  /\ async' = [async EXCEPT ![c].done = DoneStored]
  /\ cb' = [cb EXCEPT ![c].pc = "idle"]
  /\ UNCHANGED <<rvars, share, key, obs, dns_entry, alive, co, held, cache, cached,
                 freed, ncalls, nclaims, nmut, claimed>>

\* a store of the callback's thread becomes visible to the other threads;
\* the stores are plain, so nothing orders the three fields
Observe(c, f) ==
  /\ obs[c][f] # async[c][f]
  /\ obs' = [obs EXCEPT ![c][f] = async[c][f]]
  /\ UNCHANGED <<rvars, share, key, async, dns_entry, alive, cb, co, held, cache,
                 cached, freed, ncalls, nclaims, nmut, claimed>>

(* ------------------------ Curl_async_resolved -------------------------- *)
\* line 124: if(conn->async.dns)
HasResult(dns) == dns # NULL
\* a consumer that leaves the claimed reference in place
DnsAfterClaimKept(c) == obs[c].dns
\* line 126: conn->async.dns = NULL
DnsAfterClaim(c) == NULL
\* a consumer that tears down on success instead of on failure
NeedDisconnectInverted(result) == result = CURLE_OK
\* line 131: if(result)
NeedDisconnect(result) == result # CURLE_OK
\* lines 129-136: the calls Curl_async_resolved makes, in order
CallsMade(r) ==
  <<"Curl_setup_conn">>
  \o (IF NeedDisconnect(r) THEN <<"Curl_disconnect">> ELSE <<>>)
  \o <<"return">>
\* line 136: return result
Returned(result) == result

\* lines 119-137: called once the caller has seen async.done; r is what
\* Curl_setup_conn returns
Curl_async_resolved(c, r) ==
  /\ cb[c].pc = "idle" /\ alive[c]
  /\ obs[c].done
  /\ TotalClaims < MaxClaims
  /\ nclaims' = [nclaims EXCEPT ![c] = @ + 1]
  /\ IF HasResult(obs[c].dns)
     THEN /\ dns_entry' = [dns_entry EXCEPT ![c] = obs[c].dns]
          /\ async' = [async EXCEPT ![c].dns = DnsAfterClaim(c)]
          /\ obs' = [obs EXCEPT ![c].dns = DnsAfterClaim(c)]
     ELSE UNCHANGED <<dns_entry, async, obs>>
  /\ claimed' = [claimed EXCEPT ![c] = Append(@, obs[c].dns)]
  /\ co' = [co EXCEPT ![c] =
              [status |-> async[c].status, cbres |-> cb[c].result,
               calls |-> CallsMade(r), result |-> r, ret |-> Returned(r)]]
  /\ alive' = [alive EXCEPT ![c] = ~NeedDisconnect(r)]
  /\ UNCHANGED <<rvars, share, key, cb, held, cache, cached, freed, ncalls, nmut>>

(* -------------------------- resolver handles --------------------------- *)
\* callbacks.init(&ret->userdata): its status is the backend's; on success it
\* has set up private state, on failure it may have left some behind
InitResults == {CURLE_OK, CURLE_OUT_OF_MEMORY}
\* what init leaves in userdata: its private state when it has set one up
InitUserdata(userdata, left) == IF left THEN "private" ELSE userdata
\* callbacks.cleanup(userdata) releases the private state it is handed
CleanupPriv(priv) == IF priv = "held" THEN "released" ELSE priv
\* a create that hands out the handle whatever init said
InitFailedNever(r) == FALSE
\* lines 166, 180: if(ret->callbacks.init(&ret->userdata) != CURLE_OK)
InitFailed(r) == r # CURLE_OK
\* a destroy that frees the handle without calling cleanup
DestroyCallsNoCleanup == <<"free">>
\* lines 190-191: resolver->callbacks.cleanup(resolver->userdata); free(resolver)
DestroyCalls == <<"cleanup", "free">>
\* what the calls of a destroy do to the private state
PrivAfter(calls, priv) ==
  IF \E i \in 1..Len(calls) : calls[i] = "cleanup" THEN CleanupPriv(priv)
  ELSE priv
\* lines 164, 178 with ret = NULL: a store through a null pointer.  It traps
\* there, or (address 0 writable) the stores land and the trap comes when init
\* is called through the table copied to address 0.
NullDerefOutcomes == {"trap_at_store", "trap_in_init"}

\* the block calloc hands out next
NextHandle == CHOOSE h \in Handles :
                /\ resolver[h].mem = "unused"
                /\ \A g \in Handles : g < h => resolver[g].mem # "unused"

\* lines 187-192: Curl_resolver_destroy(resolver)
Destroyed(r) ==
  [r EXCEPT !.mem = "freed", !.calls = @ \o DestroyCalls,
            !.priv = PrivAfter(DestroyCalls, @)]

\* lines 162-170 and 176-184: the body the two create functions share;
\* userdata is what line 164 or 178 stores, r what init returns, left whether
\* init left private state behind
CreateBody(userdata, allocOk, r, left) ==
  /\ oom = "none"
  /\ \E h \in Handles : resolver[h].mem = "unused"
  /\ IF ~allocOk
     THEN /\ oom' \in NullDerefOutcomes
          /\ UNCHANGED resolver
     ELSE LET h == NextHandle
              made == [mem |-> "live",
                       userdata |-> InitUserdata(userdata, r = CURLE_OK \/ left),
                       priv |-> IF r = CURLE_OK \/ left THEN "held" ELSE "none",
                       calls |-> <<"init">>, ret |-> "handle", init |-> r]
          IN /\ resolver' = [resolver EXCEPT ![h] =
                  IF InitFailed(r) THEN [Destroyed(made) EXCEPT !.ret = "NULL"]
                  ELSE made]
             /\ UNCHANGED oom
  /\ UNCHANGED cvars

\* lines 159-171
Curl_resolver_create(allocOk, r, left) ==
  CreateBody("null", allocOk, r, left)

\* lines 173-185
Curl_resolver_create_with_userdata(allocOk, r, left) ==
  CreateBody("caller", allocOk, r, left)

\* lines 187-192, called by the owner of a handle it got from create
Curl_resolver_destroy(h) ==
  /\ oom = "none"
  /\ resolver[h].mem = "live" /\ resolver[h].ret = "handle"
  /\ resolver' = [resolver EXCEPT ![h] = Destroyed(@)]
  /\ UNCHANGED <<oom, cvars>>

(* --------------------------- specification ----------------------------- *)
Next ==
  \/ \E c \in Conns, st \in Statuses, hasAi \in BOOLEAN : CB_Invoke(c, st, hasAi)
  \/ \E c \in Conns : CB_Lock(c)
  \/ \E c \in Conns, ok \in BOOLEAN : CB_CacheAddr(c, ok)
  \/ \E c \in Conns : CB_CacheInsert(c)
  \/ \E c \in Conns : CB_StoreCheck(c)
  \/ \E c \in Conns : CB_Unlock(c)
  \/ \E c \in Conns : CB_SetDns(c)
  \/ \E c \in Conns : CB_SetDone(c)
  \/ \E c \in Conns, f \in Fields : Observe(c, f)
  \/ \E c \in Conns, r \in SetupResults : Curl_async_resolved(c, r)

Spec == Init /\ [][Next]_vars

\* the resolver handles alone: the connections stay as they start
InitResolver ==
  /\ Init
  /\ \A c \in Conns : ~share[c] /\ key[c] = c

NextResolver ==
  \/ \E allocOk, left \in BOOLEAN, r \in InitResults :
       Curl_resolver_create(allocOk, r, left)
  \/ \E allocOk, left \in BOOLEAN, r \in InitResults :
       Curl_resolver_create_with_userdata(allocOk, r, left)
  \/ \E h \in Handles : Curl_resolver_destroy(h)

SpecResolver == InitResolver /\ [][NextResolver]_vars

\* the steps of a running callback that wait for nothing
CB_Run(c) ==
  \/ \E ok \in BOOLEAN : CB_CacheAddr(c, ok)
  \/ CB_CacheInsert(c)
  \/ CB_StoreCheck(c)
  \/ CB_Unlock(c)
  \/ CB_SetDns(c)
  \/ CB_SetDone(c)

\* the callbacks and the visibility of the flag to a thread that polls it;
\* the consumer does not run
NextLive ==
  \/ \E c \in Conns, status \in Statuses, hasAi \in BOOLEAN :
       CB_Invoke(c, status, hasAi)
  \/ \E c \in Conns : CB_Lock(c)
  \/ \E c \in Conns : CB_Run(c)
  \/ \E c \in Conns : Observe(c, "done")

\* fair scheduling: a thread that can run does; a thread waiting for the lock
\* gets it if the lock is free again and again; a store becomes visible
Fairness ==
  \A c \in Conns :
    /\ WF_vars(CB_Run(c))
    /\ SF_vars(CB_Lock(c))
    /\ WF_vars(Observe(c, "done"))

FairSpec == Init /\ [][NextLive]_vars /\ Fairness


(* ------------------------------ properties ----------------------------- *)
\* the callback has been invoked for c and has returned
CallbackReturned(c) == ncalls[c] > 0 /\ cb[c].pc = "idle"
\* the latest invocation for c handed its list to Curl_cache_addr
ListTaken(c) == TakesList(cb[c].status, cb[c].ai)
\* ... and Curl_cache_addr gave back an entry
StoreOk(c) == ListTaken(c) /\ cb[c].dns # NULL
\* a claim since the last completion of c found an entry
ClaimedEntry(c) == \E i \in 1..Len(claimed[c]) : claimed[c][i] # NULL
\* how often the consumer's last run on c made the call
CallCount(c, name) ==
  Cardinality({i \in 1..Len(co[c].calls) : co[c].calls[i] = name})

\* C1: in every interleaving of the callback with a reader on another thread,
\* a reader that observes async.done = TRUE observes in async.status and
\* async.dns the values the invocation finally leaves there, and the callback
\* has finished writing them.  (Stated for the first completion of c.)
C1_DoneObservedLast ==
  \A c \in Conns :
    (ncalls[c] = 1 /\ obs[c].done) =>
      /\ cb[c].pc = "idle"
      /\ obs[c].status = async[c].status
      /\ obs[c].dns = async[c].dns

\* the list of the latest invocation went into the cache and the callback
\* stored the cache's entry for the key
ListStored(c) ==
  /\ cb[c].ai \in cached
  /\ cb[c].dns # NULL /\ cb[c].dns = CacheLookup(c)
  /\ (claimed[c] = <<>> => async[c].dns = cb[c].dns)
\* the list of the latest invocation was released and async.dns is null
ListReleased(c) ==
  /\ cb[c].ai \in freed
  /\ cb[c].dns = NULL /\ async[c].dns = NULL

\* C2: when the callback was invoked with success and a non-null list, then on
\* return exactly one of these happened: the list was stored in the cache and
\* async.dns references the entry, or the list was released and async.dns is
\* null; never both, never neither, with or without a shared cache.
C2_StoredOrReleased ==
  \A c \in Conns :
    (CallbackReturned(c) /\ ListTaken(c)) =>
      /\ ListStored(c) \/ ListReleased(c)
      /\ ~(cb[c].ai \in cached /\ cb[c].ai \in freed)

\* C2 happens: one handle with a share stored its list, the other released it
C2_Witness ==
  \E c, d \in Conns :
    /\ CallbackReturned(c) /\ ListTaken(c) /\ ListStored(c) /\ share[c]
    /\ CallbackReturned(d) /\ ListTaken(d) /\ ListReleased(d)

\* the callback returned from a success with a list whose store failed
StoreFailedCase(c) ==
  CallbackReturned(c) /\ ListTaken(c) /\ cb[c].dns = NULL

\* C3 as claimed: after a success whose cache store failed, the stored
\* async.status is the out-of-memory failure and async.dns is null.
C3_StatusDowngraded ==
  \A c \in Conns :
    StoreFailedCase(c) =>
      /\ async[c].done
      /\ async[c].status = CURLE_OUT_OF_MEMORY
      /\ async[c].dns = NULL

\* C3 as amended: after a success whose cache store failed, the flag is set,
\* async.dns is null and async.status still holds the success status passed
\* in; the out-of-memory failure is the callback's return value only.
C3_StoreFailureReturned ==
  \A c \in Conns :
    StoreFailedCase(c) =>
      /\ async[c].done
      /\ async[c].status = CURL_ASYNC_SUCCESS
      /\ async[c].dns = NULL
      /\ cb[c].result = CURLE_OUT_OF_MEMORY

C3_Witness == \E c \in Conns : StoreFailedCase(c) /\ async[c].done

\* the consumer's last run on c found a failed resolution
ConsumedFailure(c) ==
  /\ nclaims[c] > 0
  /\ co[c].status # CURL_ASYNC_SUCCESS \/ co[c].cbres = CURLE_OUT_OF_MEMORY

\* C4: when Curl_async_resolved runs on a Pending Resolution whose status
\* denotes failure (the out-of-memory case included), it does not call
\* Curl_setup_conn, tears the connection down and returns the stored status.
C4_FailureSkipsSetup ==
  \A c \in Conns :
    ConsumedFailure(c) =>
      /\ CallCount(c, "Curl_setup_conn") = 0
      /\ CallCount(c, "Curl_disconnect") = 1
      /\ co[c].ret = (IF co[c].cbres = CURLE_OUT_OF_MEMORY
                      THEN CURLE_OUT_OF_MEMORY ELSE co[c].status)

\* position of the first call of that name in a sequence of calls, 0 if none
FirstAt(calls, name) ==
  IF \E i \in 1..Len(calls) : calls[i] = name
  THEN CHOOSE i \in 1..Len(calls) :
         calls[i] = name /\ \A j \in 1..(i - 1) : calls[j] # name
  ELSE 0

C6_ClaimOnce ==
  \A c \in Conns :
    \A i \in 1..Len(claimed[c]) :
      claimed[c][i] # NULL =>
        /\ \A j \in (i + 1)..Len(claimed[c]) : claimed[c][j] = NULL
        /\ dns_entry[c] = claimed[c][i]
        /\ async[c].dns = NULL /\ obs[c].dns = NULL

\* C6 happens: a claim found an entry and a second claim followed it
C6_Witness ==
  \E c \in Conns :
    Len(claimed[c]) = 2 /\ claimed[c][1] # NULL /\ claimed[c][2] = NULL

\* a step of the callback for c
CallbackStep(c) == cb'[c] # cb[c]

\* C7 as claimed: the flag never goes back to false, and a completion call
\* made when the flag is already true changes neither async.status nor
\* async.dns.
C7_LateCompletionRejected ==
  [][\A c \in Conns :
       /\ async[c].done => async'[c].done
       /\ (async[c].done /\ CallbackStep(c)) =>
            /\ async'[c].status = async[c].status
            /\ async'[c].dns = async[c].dns]_vars

\* C7 as amended: the flag never goes back to false (so it goes from false to
\* true once); the callback does not turn away a completion call made when
\* the flag is already true: such a call stores its own status and its own
\* address reference like the first one.
C7_DoneMonotonic ==
  [][\A c \in Conns :
       /\ async[c].done => async'[c].done
       /\ (cb[c].pc = "idle" /\ CallbackStep(c)) =>
            async'[c].status = cb'[c].status
       /\ (cb[c].pc = "l102" /\ CallbackStep(c)) =>
            async'[c].dns = cb[c].dns]_vars

\* C7 happens: a second completion call on c returned after the flag was set
C7_Witness ==
  \E c \in Conns :
    /\ ncalls[c] = 2 /\ cb[c].pc = "idle" /\ async[c].done
    /\ async[c].status = ASYNC_FAILURE /\ cb[c].status = ASYNC_FAILURE

\* C8 as claimed: whenever the flag is true, also after a claim by the
\* consumer, async.dns is non-null if and only if the status is success and
\* the cache store succeeded.  (Stated for the first completion of c.)
C8_DnsIffStored ==
  \A c \in Conns :
    (async[c].done /\ ncalls[c] = 1) =>
      (async[c].dns # NULL <=>
         (async[c].status = CURL_ASYNC_SUCCESS /\ StoreOk(c)))

\* C8 as amended: whenever the flag is true and no completion call is in
\* progress, async.dns is non-null if and only if the status is success, the
\* cache store succeeded and the consumer has not yet claimed the entry.
C8_DnsIffStoredUnclaimed ==
  \A c \in Conns :
    (async[c].done /\ cb[c].pc = "idle") =>
      (async[c].dns # NULL <=>
         (async[c].status = CURL_ASYNC_SUCCESS /\ StoreOk(c)
            /\ ~ClaimedEntry(c)))

\* C8 happens: the store succeeded and the consumer has claimed the entry
C8_Witness ==
  \E c \in Conns :
    /\ async[c].done /\ cb[c].pc = "idle"
    /\ async[c].status = CURL_ASYNC_SUCCESS /\ StoreOk(c)
    /\ ClaimedEntry(c) /\ async[c].dns = NULL

\* C9 as claimed: the lock is held for the store alone; no other work of the
\* callback (the release of the list after a failed store, the write of
\* async.dns, the write of the flag) is done while it holds the lock.
C9_LockOnlyAroundStore ==
  \A c \in Conns :
    held = c =>
      \/ cb[c].pc \in {"l85", "l85i", "l94"}
      \/ cb[c].pc = "l88" /\ ~StoreFailed(cb[c].dns)

\* C9 as amended: the lock is held for the store and for the release of the
\* list after a failed store, which comes before the unlock; async.dns and the
\* flag are written after the lock has been given back.
C9_LockAroundStoreAndCleanup ==
  \A c \in Conns :
    /\ held = c => cb[c].pc \in {"l85", "l85i", "l88", "l94"}
    /\ cb[c].pc \in {"l102", "l107", "idle"} => held # c
    /\ (share[c] /\ cb[c].pc \in {"l85", "l85i", "l88", "l94"}) => held = c

\* C9 happens: the list of a failed store is released, the lock still held
C9_Witness ==
  \E c \in Conns :
    held = c /\ cb[c].pc = "l94" /\ cb[c].ai \in freed

\* both handles use the shared cache for the same name and both completed a
\* successful resolution whose store succeeded
SameKeyStored(c, d) ==
  /\ c # d /\ share[c] /\ share[d] /\ key[c] = key[d]
  /\ CallbackReturned(c) /\ StoreOk(c)
  /\ CallbackReturned(d) /\ StoreOk(d)

\* C10: when two connections under one shared cache complete a successful
\* resolution of the same (hostname, port) in any interleaving, one store call
\* only changes the cache and both get the same entry.
C10_OneStoreMutates ==
  \A c, d \in Conns :
    SameKeyStored(c, d) =>
      /\ nmut[CacheOf(c)][key[c]] = 1
      /\ cb[c].dns = cb[d].dns
      /\ cb[c].dns = CacheLookup(c)

\* C10 happens: two such connections, each with a list of its own
C10_Witness ==
  \E c, d \in Conns : SameKeyStored(c, d) /\ cb[c].ai # cb[d].ai

(* ------------------------- resolver properties ------------------------- *)
\* how often the call of that name was made for a handle
HandleCalls(h, name) ==
  Cardinality({i \in 1..Len(resolver[h].calls) : resolver[h].calls[i] = name})
\* init was invoked for the handle and reported failure
InitFailedFor(h) ==
  resolver[h].init # "none" /\ resolver[h].init # CURLE_OK

\* C11: when the backend's init fails, both create functions return NULL,
\* having invoked cleanup exactly once (after init, on what init left behind)
\* and released the handle memory exactly once; the caller has no handle.
C11_InitFailureCleansUp ==
  \A h \in Handles :
    InitFailedFor(h) =>
      /\ resolver[h].ret = "NULL"
      /\ resolver[h].calls = <<"init", "cleanup", "free">>
      /\ resolver[h].mem = "freed"
      /\ resolver[h].priv # "held"

\* C11 happens: an init that left private state failed in one create, an init
\* that left the caller's userdata alone failed in create_with_userdata
C11_Witness ==
  \E h, g \in Handles :
    /\ InitFailedFor(h) /\ resolver[h].priv = "released"
    /\ InitFailedFor(g) /\ resolver[g].userdata = "caller"

\* C12: when the allocation of the handle fails, create reports the failure
\* through its return value: the process does not trap on the null handle.
C12_AllocFailureReported == oom \notin NullDerefOutcomes

\* C13: over any sequence of create and destroy, cleanup is invoked exactly
\* once for each handle on which init was invoked, after that init, in create
\* when init failed and in destroy when it succeeded, and the handle is
\* released exactly once: not before destroy when init succeeded.
C13_CleanupOncePerHandle ==
  \A h \in Handles :
    /\ resolver[h].calls \in {<<>>, <<"init">>, <<"init", "cleanup", "free">>}
    /\ resolver[h].mem = "unused" <=> resolver[h].calls = <<>>
    /\ resolver[h].mem = "live" <=> resolver[h].calls = <<"init">>
    /\ resolver[h].mem = "freed" =>
         /\ HandleCalls(h, "init") = 1
         /\ HandleCalls(h, "cleanup") = 1
         /\ HandleCalls(h, "free") = 1
         /\ resolver[h].priv # "held"
    /\ resolver[h].mem = "live" =>
         resolver[h].init = CURLE_OK /\ resolver[h].ret = "handle"

\* C13 happens: one handle was destroyed by its owner, one was cleaned up
\* inside create, one is still in use
C13_Witness ==
  \E h, g, k \in Handles :
    /\ resolver[h].mem = "freed" /\ resolver[h].init = CURLE_OK
    /\ resolver[g].mem = "freed" /\ InitFailedFor(g)
    /\ resolver[k].mem = "live"

(* ------------------- callback paths: lock and store -------------------- *)
\* the callback for c has set the flag or returned
FlagSetOrReturned(c) == ncalls[c] > 0 /\ cb[c].pc \in {"l107", "idle"}

\* C14: the callback acquires the lock if and only if the handle has a share,
\* the status is success and a list was supplied; each acquisition has exactly
\* one release, after a store that succeeded and after one that failed, so the
\* lock is not held when the flag is set or when the callback returns.
C14_LockIffSharedSuccessList ==
  \A c \in Conns :
    /\ cb[c].locks \in {0, 1} /\ cb[c].unlocks \in {0, 1}
    /\ held = c <=> cb[c].locks = cb[c].unlocks + 1
    /\ held # c => cb[c].locks = cb[c].unlocks
    /\ cb[c].locks = 1 => share[c] /\ ListTaken(c)
    /\ FlagSetOrReturned(c) =>
         /\ cb[c].locks = (IF share[c] /\ ListTaken(c) THEN 1 ELSE 0)
         /\ cb[c].unlocks = cb[c].locks
         /\ held # c

\* C14 happens: with a share, one callback returned after a store that failed
\* and an unlock, the other after a store that succeeded and an unlock
C14_Witness ==
  \E c, d \in Conns :
    /\ CallbackReturned(c) /\ cb[c].locks = 1 /\ cb[c].unlocks = 1
    /\ cb[c].dns = NULL
    /\ CallbackReturned(d) /\ cb[d].locks = 1 /\ cb[d].unlocks = 1
    /\ cb[d].dns # NULL

\* the callback for c is inside Curl_cache_addr
InStore(c) == cb[c].pc \in {"l85", "l85i"}

\* C15: of the callbacks that run at the same time under one shared cache,
\* only one that holds the share's lock executes Curl_cache_addr, so at most
\* one of them is inside the store in any reachable state.
C15_StoreUnderLock ==
  /\ \A c \in Conns : (share[c] /\ InStore(c)) => held = c
  /\ \A c, d \in Conns :
       (share[c] /\ share[d] /\ InStore(c) /\ InStore(d)) => c = d

\* C15 happens: one callback is inside the store, another with the same share
\* has a list to store and waits for the lock
C15_Witness ==
  \E c, d \in Conns :
    /\ c # d /\ share[c] /\ share[d]
    /\ cb[c].pc = "l85i" /\ held = c
    /\ cb[d].pc = "l82"

\* the latest invocation for c was made with a failure status
FailureStatus(c) == ncalls[c] > 0 /\ cb[c].status # CURL_ASYNC_SUCCESS
\* the latest invocation for c took no lock and made no store call
NoCacheInteraction(c) ==
  /\ cb[c].locks = 0 /\ cb[c].unlocks = 0 /\ cb[c].stores = 0
  /\ cb[c].pc \in {"l102", "l107", "idle"}
  /\ held # c

\* C16: an invocation with a failure status does not interact with the cache:
\* it takes no lock, makes no store call and none of its steps changes a
\* cache; it sets async.dns to null, async.status holds the failure status the
\* backend passed and the flag is set when it returns.
C16_FailureNoCacheInteraction ==
  [][\A c \in Conns :
       (FailureStatus(c))' =>
         /\ NoCacheInteraction(c)'
         /\ cb'[c].dns = NULL
         /\ async'[c].status = cb'[c].status
         /\ FlagSetOrReturned(c)' => async'[c].dns = NULL
         /\ CallbackReturned(c)' => async'[c].done
         /\ CallbackStep(c) =>
              /\ cache' = cache /\ nmut' = nmut
              /\ cached' = cached /\ held' = held]_vars

\* C16 happens: a failure completion returned, while the shared cache holds
\* an entry another connection stored
C16_Witness ==
  \E c, d \in Conns :
    /\ c # d /\ share[c] /\ share[d]
    /\ FailureStatus(c) /\ CallbackReturned(c) /\ async[c].done
    /\ async[c].status = ASYNC_FAILURE /\ async[c].dns = NULL
    /\ CallbackReturned(d) /\ StoreOk(d)

\* the latest invocation for c was made with success but without a list
SuccessNoList(c) ==
  ncalls[c] > 0 /\ cb[c].status = CURL_ASYNC_SUCCESS /\ cb[c].ai = NULL

\* C17: an invocation with a success status and no list ends as an
\* out-of-memory failure: the callback returns CURLE_OUT_OF_MEMORY, takes no
\* lock, makes no store call, leaves async.dns null and sets the flag.
C17_SuccessWithoutListIsOom ==
  \A c \in Conns :
    SuccessNoList(c) =>
      /\ cb[c].result = CURLE_OUT_OF_MEMORY
      /\ NoCacheInteraction(c)
      /\ cb[c].dns = NULL
      /\ FlagSetOrReturned(c) => async[c].dns = NULL
      /\ CallbackReturned(c) => async[c].done

\* C17 happens: such an invocation returned, on a connection whose earlier
\* completion had stored an entry
C17_Witness ==
  \E c \in Conns :
    /\ SuccessNoList(c) /\ CallbackReturned(c) /\ ncalls[c] = 2
    /\ cb[c].result = CURLE_OUT_OF_MEMORY /\ async[c].done
    /\ CacheLookup(c) # NULL

\* the list of the latest invocation for c is in a cache, or was released
ListInCache(c) == cb[c].ai \in cached
ListFreed(c) == cb[c].ai \in freed

\* C18 as claimed: every invocation handed a non-null list, those with a
\* failure status included, has stored the list in the cache or released it
\* when it returns, and never leaves it unstored and unreleased.
C18_ListAlwaysTransferred ==
  \A c \in Conns :
    (CallbackReturned(c) /\ cb[c].ai # NULL) =>
      /\ ListInCache(c) \/ ListFreed(c)
      /\ ~(ListInCache(c) /\ ListFreed(c))

\* C18 as amended: an invocation handed a non-null list with a success status
\* has, when it returns, either stored the list in the cache or released it,
\* never both and never neither; with a failure status the callback neither
\* stores nor releases the list, which stays with the caller.
C18_ListTransferredOnSuccess ==
  \A c \in Conns :
    (CallbackReturned(c) /\ cb[c].ai # NULL) =>
      IF cb[c].status = CURL_ASYNC_SUCCESS
      THEN ListInCache(c) # ListFreed(c)
      ELSE ~ListInCache(c) /\ ~ListFreed(c)

\* C18 happens: a failure completion that came with a list has returned
C18_Witness ==
  \E c \in Conns :
    /\ CallbackReturned(c) /\ cb[c].ai # NULL /\ FailureStatus(c)
    /\ ~ListInCache(c) /\ ~ListFreed(c)

\* C19: the callback returns CURLE_OUT_OF_MEMORY exactly when the status is
\* success and async.dns ends up null (no list, or the store failed); in every
\* other case, every failure status included, it returns CURLE_OK.
C19_ReturnValue ==
  \A c \in Conns :
    CallbackReturned(c) =>
      /\ cb[c].result \in {CURLE_OK, CURLE_OUT_OF_MEMORY}
      /\ cb[c].result = CURLE_OUT_OF_MEMORY <=>
           (cb[c].status = CURL_ASYNC_SUCCESS /\ cb[c].dns = NULL)
      /\ claimed[c] = <<>> => async[c].dns = cb[c].dns

\* C19 happens: of two returned invocations with a success status one had no
\* list and the other a store that failed
C19_Witness ==
  \E c, d \in Conns :
    /\ CallbackReturned(c) /\ SuccessNoList(c) /\ async[c].dns = NULL
    /\ CallbackReturned(d) /\ StoreFailedCase(d)
    /\ cb[c].result = CURLE_OUT_OF_MEMORY /\ cb[d].result = CURLE_OUT_OF_MEMORY

(* ------------------------------ liveness ------------------------------- *)
\* C20: under fair scheduling every invocation of the callback returns with
\* the flag set, on every path and also when several callbacks contend for
\* the share's lock, and the flag becomes visible to a thread that polls it.
C20_EventuallyDone ==
  \A c \in Conns :
    /\ (cb[c].pc # "idle") ~> (cb[c].pc = "idle" /\ async[c].done)
    /\ (cb[c].pc # "idle") ~> obs[c].done

\* C20 happens: one callback holds the lock inside the store, another with
\* the same share waits for the lock, and no flag is set yet
C20_Witness ==
  \E c, d \in Conns :
    /\ c # d /\ held = c /\ InStore(c)
    /\ cb[d].pc = "l82" /\ share[d]
    /\ ~async[c].done /\ ~async[d].done

====
